---- MODULE Spec2Model ----
(***************************************************************************)
(* Model of src/acct_id_input_app.py: the account lookup form              *)
(* (AccountLookupApp), its identifier allowlist, and the template writer   *)
(* write_df_to_template over a small file system of workbooks.             *)
(*                                                                         *)
(* Text is a sequence of one-character tokens.  A DataFrame value and a    *)
(* worksheet cell value are texts too: a one-token sequence stands for an  *)
(* opaque scalar (<<"v">>, <<"acct_id">>), NaN is pandas' missing value    *)
(* and NoneCell is an openpyxl cell without a value.                       *)
(***************************************************************************)
EXTENDS Integers, Sequences, FiniteSets, TLC

VARIABLES
    acct_var,        \* self.acct_var: text of the acct_id entry
    last_df,         \* self.last_df: cached result of the last query
    TEMPLATE_PATH,   \* module global, reassigned by pick_template
    files,           \* the file system: path -> workbook or Missing
    msg,             \* the message box shown by the last handler
    executed,        \* the query the last handler handed to run_ccb_query, <<>> if none
    draft,           \* draft_email.eml as the last handler wrote it, NoDraft if it wrote none
    event,           \* the last handler run; what the executor and the disk answered
                     \* it, "-" where it did not ask
    probe            \* last direct call of write_df_to_template: args and result

vars == <<acct_var, last_df, TEMPLATE_PATH, files, msg, executed, draft, event, probe>>

----------------------------------------------------------------------------
(* Bounds *)

MaxLen == 2          \* longest short text typed into the acct_id entry
MaxRows == 2         \* most rows of a DataFrame, most old data rows of a template

(* Program constants *)

MaxIdLen == 64       \* {1,64} of SAFE_ACCT_ID_PATTERN
SelectWidth == 5     \* columns of the SELECT list of build_select_query

----------------------------------------------------------------------------
(* Text *)

Letters == {"a", "b", "Z"}
Digits == {"0", "7"}
SafeChars == Letters \cup Digits \cup {"_", "-", "."}
Whitespace == {" ", "\n", "\t"}

\* the characters the entry is filled from
Alphabet == {"a", "\n", "'"}

RECURSIVE Rep(_, _)
Rep(c, n) == IF n = 0 THEN <<>> ELSE <<c>> \o Rep(c, n - 1)

RECURSIVE SeqsUpTo(_, _)
SeqsUpTo(S, n) ==
    IF n = 0 THEN {<<>>}
    ELSE LET shorter == SeqsUpTo(S, n - 1)
         IN shorter \cup {Append(s, c) : s \in {t \in shorter : Len(t) = n - 1}, c \in S}

\* texts the user can have in the entry: every short text, texts at the length
\* limit of the allowlist, and one text over the other allowed characters with
\* blanks around it
FieldTexts ==
    SeqsUpTo(Alphabet, MaxLen)
    \cup {Rep("a", MaxIdLen), Rep("a", MaxIdLen + 1), Rep("a", MaxIdLen) \o <<"\n">>,
          <<" ", "Z", "_", "7", "-", ".", " ">>}

RECURSIVE lstrip(_)
lstrip(s) == IF s # <<>> /\ Head(s) \in Whitespace THEN lstrip(Tail(s)) ELSE s

RECURSIVE rstrip(_)
rstrip(s) ==
    IF s # <<>> /\ s[Len(s)] \in Whitespace THEN rstrip(SubSeq(s, 1, Len(s) - 1)) ELSE s

\* str.strip()
strip(s) == rstrip(lstrip(s))

\* SAFE_ACCT_ID_PATTERN.match(s) for ^[A-Za-z0-9_\-\.]{1,64}$ : Python's $ also
\* matches just before a newline that ends the string
SAFE_ACCT_ID_PATTERN_match(s) ==
    LET body == IF s # <<>> /\ s[Len(s)] = "\n" THEN SubSeq(s, 1, Len(s) - 1) ELSE s
    IN /\ Len(body) >= 1
       /\ Len(body) <= MaxIdLen
       /\ \A i \in 1..Len(body) : body[i] \in SafeChars

\* sanitize_acct_id: the text itself when accepted, else ValueError
sanitize_acct_id(acct_id) ==
    IF acct_id = <<>> \/ ~SAFE_ACCT_ID_PATTERN_match(acct_id)
    THEN [ok |-> FALSE, value |-> <<>>]
    ELSE [ok |-> TRUE, value |-> acct_id]

SelectPrefix == <<"SELECT acct_id, name, segment, balance, status FROM accounts WHERE acct_id = ", "'">>

\* build_select_query: the f-string puts the text between two quote characters
build_select_query(acct_id) == SelectPrefix \o acct_id \o <<"'">>

----------------------------------------------------------------------------
(* DataFrames *)

NaN == <<"nan">>          \* pandas' missing value
NoneCell == <<"None">>    \* an openpyxl cell holding no value

\* pd.isna
isna(v) == v = NaN

NoneDF == [isnone |-> TRUE, columns |-> <<>>, rows |-> <<>>]

DataFrame(cols, rws) == [isnone |-> FALSE, columns |-> cols, rows |-> rws]

\* df.empty: an axis of length 0
df_empty(df) == Len(df.columns) = 0 \/ Len(df.rows) = 0

\* variant: the guard tests only "df is None"
df_is_none(df) == df.isnone

\* the guard of write_df_to_template: df is None or df.empty
df_is_none_or_empty(df) == df.isnone \/ df_empty(df)

\* series[col]: lookup by label in a row of a frame with unique column names
series_at(headers, row, col) ==
    row[CHOOSE i \in 1..Len(headers) : headers[i] = col]

----------------------------------------------------------------------------
(* Workbooks *)

GridRows == 1..(MaxRows + 1)
GridCols == 1..SelectWidth

\* the cells of a sheet: cells[r][c], NoneCell where the sheet stores nothing
BlankCells == [r \in GridRows |-> [c \in GridCols |-> NoneCell]]

Missing == [sheets |-> <<>>, active |-> 0]

SheetNames(wb) == {wb.sheets[i].title : i \in 1..Len(wb.sheets)}

SheetIndex(wb, title) == CHOOSE i \in 1..Len(wb.sheets) : wb.sheets[i].title = title

SetMax(S) == CHOOSE x \in S : \A y \in S : y <= x

\* ws.max_row / ws.max_column: the largest index of a stored cell, 1 for a blank sheet
max_row(cells) ==
    SetMax({1} \cup {r \in GridRows : \E c \in GridCols : cells[r][c] # NoneCell})

max_column(cells) ==
    SetMax({1} \cup {c \in GridCols : \E r \in GridRows : cells[r][c] # NoneCell})

\* ws.cell(row, column, value): a value of None leaves the cell as it is
ws_cell(cells, r, c, value) ==
    IF value = NoneCell THEN cells ELSE [cells EXCEPT ![r][c] = value]

\* for i, col in enumerate(headers, start=1): ws.cell(row=1, column=i, value=col)
RECURSIVE write_headers(_, _, _)
write_headers(cells, headers, i) ==
    IF i > Len(headers) THEN cells
    ELSE write_headers(ws_cell(cells, 1, i, headers[i]), headers, i + 1)

\* ensure_template_with_headers: acts on the global TEMPLATE_PATH (gtp)
ensure_template_with_headers(fs, gtp, headers) ==
    IF fs[gtp] = Missing
    THEN [fs EXCEPT ![gtp] =
            [sheets |-> <<[title |-> "Report",
                           cells |-> write_headers(BlankCells, headers, 1)]>>,
             active |-> 1]]
    ELSE fs

\* if "Report" not in wb.sheetnames: wb.active.title = "Report"
claim_report_sheet(wb) ==
    IF "Report" \notin SheetNames(wb)
    THEN [wb EXCEPT !.sheets[wb.active].title = "Report"]
    ELSE wb

\* variant: the clearing loop stops one row short of max_row
clear_data_rows_short(cells) ==
    [r \in GridRows |-> [c \in GridCols |->
        IF r >= 2 /\ r < max_row(cells) /\ c <= max_column(cells)
        THEN NoneCell ELSE cells[r][c]]]

\* clear data rows: rows 2..max_row over columns 1..max_column are set to None
clear_data_rows(cells) ==
    IF max_row(cells) > 1
    THEN [r \in GridRows |-> [c \in GridCols |->
            IF r >= 2 /\ r <= max_row(cells) /\ c <= max_column(cells)
            THEN NoneCell ELSE cells[r][c]]]
    ELSE cells

\* variant: the value is stored as it comes, without the pd.isna test
cell_value_raw(val) == val

\* the value stored for one DataFrame value: None if pd.isna(val) else val
cell_value(val) == IF isna(val) THEN NoneCell ELSE val

\* inner loop of "write data": one DataFrame row into sheet row r_idx
RECURSIVE write_row(_, _, _, _, _)
write_row(cells, headers, row, r_idx, c_idx) ==
    IF c_idx > Len(headers) THEN cells
    ELSE write_row(
            ws_cell(cells, r_idx, c_idx, cell_value(series_at(headers, row, headers[c_idx]))),
            headers, row, r_idx, c_idx + 1)

\* first sheet row of the data region: enumerate(df.iterrows(), start=2)
data_start == 2

\* outer loop of "write data"
RECURSIVE write_rows(_, _, _, _)
write_rows(cells, headers, rws, k) ==
    IF k > Len(rws) THEN cells
    ELSE write_rows(write_row(cells, headers, rws[k], data_start + k - 1, 1),
                    headers, rws, k + 1)

\* lines 108-122: header, clear, data on the Report sheet
fill_report(cells, df) ==
    write_rows(clear_data_rows(write_headers(cells, df.columns, 1)), df.columns, df.rows, 1)

\* lines 99-126 of write_df_to_template, after the guard
write_body(df, template_path, output_path, fs, gtp, save_ok) ==
    LET fs1 == ensure_template_with_headers(fs, gtp, df.columns)
    IN IF fs1[template_path] = Missing
       THEN [files |-> fs1, ret |-> "FileNotFoundError", loaded |-> FALSE, saved |-> FALSE]
       ELSE LET wb == claim_report_sheet(fs1[template_path])
                k == SheetIndex(wb, "Report")
                out == [wb EXCEPT !.sheets[k].cells = fill_report(@, df)]
            IN IF save_ok
               THEN [files |-> [fs1 EXCEPT ![output_path] = out],
                     ret |-> "ok", loaded |-> TRUE, saved |-> TRUE]
               ELSE [files |-> fs1, ret |-> "OSError", loaded |-> TRUE, saved |-> FALSE]

\* write_df_to_template(df, template_path, output_path) run on file system fs with
\* the global TEMPLATE_PATH = gtp; save_ok: whether wb.save can write output_path
write_df_to_template(df, template_path, output_path, fs, gtp, save_ok) ==
    IF df_is_none_or_empty(df)
    THEN [files |-> fs, ret |-> "ValueError", loaded |-> FALSE, saved |-> FALSE]
    ELSE write_body(df, template_path, output_path, fs, gtp, save_ok)

----------------------------------------------------------------------------
(* Paths and files *)

DefaultTemplate == "account_template.xlsx"   \* initial TEMPLATE_PATH
OUTPUT_PATH == "account_report.xlsx"
OtherXlsx == "other.xlsx"                    \* some other workbook of the user
Paths == {DefaultTemplate, OUTPUT_PATH, OtherXlsx}

OldHeaders == {<<<<"acct_id">>, <<"balance">>>>, <<<<"h1">>, <<"h2">>, <<"h3">>>>}

\* a sheet with header hdr and m old data rows under it
OldCells(hdr, m) ==
    [r \in GridRows |-> [c \in GridCols |->
        IF c > Len(hdr) THEN NoneCell
        ELSE IF r = 1 THEN hdr[c]
        ELSE IF r <= m + 1 THEN <<"old">>
        ELSE NoneCell]]

NotesCells ==
    [r \in GridRows |-> [c \in GridCols |->
        IF r = 1 /\ c = 1 THEN <<"note">>
        ELSE IF r = 2 /\ c = 1 THEN <<"keep">> ELSE NoneCell]]

TemplateKinds == {"report", "report_notes", "notes_report", "data_notes"}

\* workbooks a user may keep as a template: Report alone, Report with a second
\* sheet (active or not), and a workbook without a sheet named Report
Template(kind, hdr, m) ==
    LET rep == [title |-> "Report", cells |-> OldCells(hdr, m)]
        notes == [title |-> "Notes", cells |-> NotesCells]
    IN CASE kind = "report" -> [sheets |-> <<rep>>, active |-> 1]
         [] kind = "report_notes" -> [sheets |-> <<rep, notes>>, active |-> 1]
         [] kind = "notes_report" -> [sheets |-> <<notes, rep>>, active |-> 1]
         [] kind = "data_notes" ->
                [sheets |-> <<[title |-> "Data", cells |-> OldCells(hdr, m)], notes>>,
                 active |-> 1]

Templates == {Template(k, h, m) : k \in TemplateKinds, h \in OldHeaders, m \in 0..MaxRows}

----------------------------------------------------------------------------
(* The query executor run_ccb_query, an external collaborator *)

SelectColumns == <<<<"acct_id">>, <<"name">>, <<"segment">>, <<"balance">>, <<"status">>>>

\* the text between the first quote character of the query and the next one:
\* the literal the WHERE clause compares acct_id with
RECURSIVE UpToQuote(_)
UpToQuote(s) ==
    IF s = <<>> \/ Head(s) = "'" THEN <<>> ELSE <<Head(s)>> \o UpToQuote(Tail(s))

QueryLiteral(query) == UpToQuote(SubSeq(query, Len(SelectPrefix) + 1, Len(query)))

ExecOutcomes == {"raise", "none", "empty", "rows"}

\* what the executor hands back: an exception, None, a frame without rows, or the
\* row of the account the WHERE clause names
run_ccb_query(query, outcome) ==
    CASE outcome = "raise" -> [raised |-> TRUE, df |-> NoneDF]
      [] outcome = "none" -> [raised |-> FALSE, df |-> NoneDF]
      [] outcome = "empty" -> [raised |-> FALSE, df |-> DataFrame(SelectColumns, <<>>)]
      [] outcome = "rows" ->
            [raised |-> FALSE,
             df |-> DataFrame(SelectColumns,
                      <<<<QueryLiteral(query), <<"n">>, <<"s">>, NaN, <<"open">>>>>>)]

----------------------------------------------------------------------------
(* AccountLookupApp *)

NoDraft == [acct |-> <<>>, attachment_path |-> ""]

\* variant: the entry text is used without strip()
entry_text_raw(field) == field

\* acct_id_raw = self.acct_var.get().strip()
entry_text(field) == strip(field)

\* run_query on entry text field with cache last; outcome is the executor's answer
\* if the query is dispatched.  msg is the title of the message box shown.
run_query(field, last, outcome) ==
    LET acct_id_raw == entry_text(field)
        checked == sanitize_acct_id(acct_id_raw)
        query == build_select_query(checked.value)
        res == run_ccb_query(query, outcome)
    IN IF acct_id_raw = <<>>
       THEN [last_df |-> last, msg |-> "Input required", executed |-> <<>>]
       ELSE IF ~checked.ok
       THEN [last_df |-> last, msg |-> "Invalid acct_id", executed |-> <<>>]
       ELSE IF res.raised
       THEN [last_df |-> last, msg |-> "Query failed", executed |-> query]
       ELSE IF df_is_none_or_empty(res.df)
       THEN [last_df |-> NoneDF, msg |-> "none", executed |-> query]
       ELSE [last_df |-> res.df, msg |-> "none", executed |-> query]

\* create_email_draft: the body names acct_id, the attachment is the file at
\* attachment_path as it is when the draft is written
create_email_draft(acct_id, attachment_path) ==
    [acct |-> acct_id, attachment_path |-> attachment_path]

\* acct_id = self.acct_var.get().strip() or "(unspecified)"
body_acct_id(field) == IF strip(field) = <<>> THEN <<"(unspecified)">> ELSE strip(field)

\* variant: the except branch of export_and_draft logs and shows nothing
export_error_swallowed(shown) == shown

\* except Exception in export_and_draft: messagebox.showerror("Error", ...);
\* shown is the box an earlier step of the handler left on screen
export_error_box(shown) == "Error"

\* export_and_draft; save_ok / draft_ok: whether the workbook and the draft can be
\* written to disk
export_and_draft(field, last, fs, gtp, outcome, save_ok, draft_ok) ==
    LET rq == IF df_is_none_or_empty(last)
              THEN run_query(field, last, outcome)
              ELSE [last_df |-> last, msg |-> "none", executed |-> <<>>]
        w == write_df_to_template(rq.last_df, gtp, OUTPUT_PATH, fs, gtp, save_ok)
    IN IF df_is_none_or_empty(rq.last_df)
       THEN [last_df |-> rq.last_df, msg |-> rq.msg, executed |-> rq.executed,
             files |-> fs, draft |-> NoDraft]
       ELSE IF w.ret # "ok" \/ ~draft_ok
       THEN [last_df |-> rq.last_df, msg |-> export_error_box(rq.msg), executed |-> rq.executed,
             files |-> w.files, draft |-> NoDraft]
       ELSE [last_df |-> rq.last_df, msg |-> "Success", executed |-> rq.executed,
             files |-> w.files,
             draft |-> create_email_draft(body_acct_id(field), OUTPUT_PATH)]

NoEvent == [handler |-> "init", exec |-> "-", io |-> "-"]

NoProbe ==
    [pc |-> "idle", df |-> NoneDF, template_path |-> "", output_path |-> "",
     save_ok |-> TRUE, gtp |-> "", before |-> [p \in Paths |-> Missing],
     ret |-> "", loaded |-> FALSE, saved |-> FALSE]

\* the state after AccountLookupApp.__init__ in a fresh working directory: no
\* template and no report yet
Init ==
    /\ acct_var = <<>>
    /\ last_df = NoneDF
    /\ TEMPLATE_PATH = DefaultTemplate
    /\ files = [p \in Paths |-> Missing]
    /\ msg = "none"
    /\ executed = <<>>
    /\ draft = NoDraft
    /\ event = NoEvent
    /\ probe = NoProbe

\* the user types into the acct_id entry
EditField ==
    \E text \in FieldTexts :
        /\ acct_var' = text
        /\ msg' = "none"
        /\ executed' = <<>>
        /\ draft' = NoDraft
        /\ event' = [handler |-> "edit", exec |-> "-", io |-> "-"]
        /\ UNCHANGED <<last_df, TEMPLATE_PATH, files, probe>>

\* button Run Query
RunQuery ==
    \E outcome \in ExecOutcomes :
        LET r == run_query(acct_var, last_df, outcome)
        IN /\ last_df' = r.last_df
           /\ msg' = r.msg
           /\ executed' = r.executed
           /\ draft' = NoDraft
           /\ event' = [handler |-> "run_query",
                        exec |-> IF r.executed = <<>> THEN "-" ELSE outcome, io |-> "-"]
           /\ UNCHANGED <<acct_var, TEMPLATE_PATH, files, probe>>

\* button Export -> Excel + Draft Email
Export ==
    \E outcome \in ExecOutcomes, io \in {"ok", "save fails", "draft fails"} :
        LET r == export_and_draft(acct_var, last_df, files, TEMPLATE_PATH,
                                  outcome, io # "save fails", io # "draft fails")
        IN /\ last_df' = r.last_df
           /\ msg' = r.msg
           /\ executed' = r.executed
           /\ files' = r.files
           /\ draft' = r.draft
           /\ event' = [handler |-> "export_and_draft",
                        exec |-> IF r.executed = <<>> THEN "-" ELSE outcome,
                        io |-> IF df_is_none_or_empty(r.last_df) THEN "-" ELSE io]
           /\ UNCHANGED <<acct_var, TEMPLATE_PATH, probe>>

\* pick_template: the file dialog returns an existing workbook, or "" on cancel
pick_template(path, gtp) == IF path # "" THEN path ELSE gtp

PickTemplate ==
    \E path \in {p \in Paths : files[p] # Missing} \cup {""} :
        /\ TEMPLATE_PATH' = pick_template(path, TEMPLATE_PATH)
        /\ msg' = "none"
        /\ executed' = <<>>
        /\ draft' = NoDraft
        /\ event' = [handler |-> "pick_template", exec |-> "-", io |-> "-"]
        /\ UNCHANGED <<acct_var, last_df, files, probe>>

Next == EditField \/ RunQuery \/ Export \/ PickTemplate

Spec == Init /\ [][Next]_vars

----------------------------------------------------------------------------
(* write_df_to_template called directly, on any frame and any pair of paths *)

ColNames == {<<"acct_id">>, <<"balance">>}

\* column lists with unique names
ColumnLists ==
    {c \in SeqsUpTo(ColNames, Cardinality(ColNames)) :
        \A i, j \in 1..Len(c) : c[i] = c[j] => i = j}

Values == {NaN, <<"v">>}

RowLists(n) == SeqsUpTo([1..n -> Values], MaxRows)

DataFrames ==
    {NoneDF} \cup UNION {{DataFrame(c, r) : r \in RowLists(Len(c))} : c \in ColumnLists}

InitW ==
    /\ acct_var = <<>>
    /\ last_df = NoneDF
    /\ TEMPLATE_PATH = DefaultTemplate
    /\ \E t \in {Missing} \cup Templates,
          u \in {Missing, Template("report_notes", <<<<"acct_id">>, <<"balance">>>>, 1)} :
          files = [p \in Paths |->
                     IF p = DefaultTemplate THEN t
                     ELSE IF p = OtherXlsx THEN u ELSE Missing]
    /\ msg = "none"
    /\ executed = <<>>
    /\ draft = NoDraft
    /\ event = NoEvent
    /\ probe = [NoProbe EXCEPT !.pc = "ready"]

\* one call write_df_to_template(df, template_path, output_path)
CallWrite ==
    /\ probe.pc = "ready"
    /\ \E df \in DataFrames, tp \in Paths, op \in Paths, save_ok \in BOOLEAN :
          LET w == write_df_to_template(df, tp, op, files, TEMPLATE_PATH, save_ok)
          IN /\ files' = w.files
             /\ probe' = [pc |-> "done", df |-> df, template_path |-> tp,
                          output_path |-> op, save_ok |-> save_ok, gtp |-> TEMPLATE_PATH,
                          before |-> files, ret |-> w.ret, loaded |-> w.loaded,
                          saved |-> w.saved]
             /\ UNCHANGED <<acct_var, last_df, TEMPLATE_PATH, msg, executed, draft, event>>

PickBeforeCall == probe.pc = "ready" /\ PickTemplate

NextW == PickBeforeCall \/ CallWrite

SpecW == InitW /\ [][NextW]_vars

----------------------------------------------------------------------------
(* Properties of write_df_to_template, checked under SpecW *)

\* the Report sheet of a workbook
ReportOf(wb) == wb.sheets[SheetIndex(wb, "Report")].cells

WriteDone == probe.pc = "done"
WriteOk == probe.pc = "done" /\ probe.ret = "ok"

NonEmptyDataRows(cells) ==
    Cardinality({r \in GridRows : r >= 2 /\ \E c \in GridCols : cells[r][c] # NoneCell})

HeaderOnlyWorkbook(headers) ==
    [sheets |-> <<[title |-> "Report",
                   cells |-> [r \in GridRows |-> [c \in GridCols |->
                                IF r = 1 /\ c <= Len(headers) THEN headers[c] ELSE NoneCell]]]>>,
     active |-> 1]

\* C2: a call with no frame or with a frame of zero rows ends with the no-data
\* ValueError, and nothing happened on disk: the file system is
\* what it was (no template created, no output written), no workbook was loaded
\* and none was saved.
C2_NoDataLeavesFilesAlone ==
    (WriteDone /\ (probe.df.isnone \/ Len(probe.df.rows) = 0)) =>
        /\ probe.ret = "ValueError"
        /\ files = probe.before
        /\ ~probe.loaded
        /\ ~probe.saved

\* a frame with columns and zero rows was passed while the global template file
\* did not exist, and the call raised
C2_Witness ==
    /\ WriteDone
    /\ ~probe.df.isnone
    /\ Len(probe.df.columns) > 0
    /\ Len(probe.df.rows) = 0
    /\ probe.before[probe.gtp] = Missing
    /\ probe.ret = "ValueError"

\* C4 as stated: after a successful write the Report sheet holds exactly n
\* non-empty data rows, n the number of rows of the result.
C4_ExactlyNNonEmptyRows ==
    WriteOk => NonEmptyDataRows(ReportOf(files[probe.output_path])) = Len(probe.df.rows)

\* C4 amended: after a successful write of n rows no data cell outside the
\* written block (rows 2..n+1, columns 1..width of the result) holds a value, so
\* no old row survives below row n+1; the sheet holds at most n non-empty data
\* rows, and exactly n when every result row has a value that is not null.
C4_NoStaleDataRows ==
    WriteOk =>
        LET cells == ReportOf(files[probe.output_path])
            n == Len(probe.df.rows)
            w == Len(probe.df.columns)
        IN /\ \A r \in GridRows, c \in GridCols :
                (r >= 2 /\ (r > n + 1 \/ c > w)) => cells[r][c] = NoneCell
           /\ NonEmptyDataRows(cells) <= n
           /\ (\A k \in 1..n : \E c \in 1..w : ~isna(probe.df.rows[k][c]))
                 => NonEmptyDataRows(cells) = n

\* one row with a value was written over a Report sheet that held two data rows
C4_Witness ==
    /\ WriteOk
    /\ probe.before[probe.template_path] # Missing
    /\ "Report" \in SheetNames(probe.before[probe.template_path])
    /\ NonEmptyDataRows(ReportOf(probe.before[probe.template_path])) = 2
    /\ Len(probe.df.rows) = 1
    /\ \E c \in 1..Len(probe.df.columns) : ~isna(probe.df.rows[1][c])

\* C5: after a successful write from an existing template, every sheet of the
\* template that is not named Report is in the written workbook with the same
\* name and the same cells.
C5_OtherSheetsUntouched ==
    (WriteOk /\ probe.before[probe.template_path] # Missing) =>
        LET tpl == probe.before[probe.template_path]
            out == files[probe.output_path]
        IN \A i \in 1..Len(tpl.sheets) :
              tpl.sheets[i].title # "Report" =>
                 \E j \in 1..Len(out.sheets) : out.sheets[j] = tpl.sheets[i]

\* C6: a call with a result that has rows, a template path at which no file
\* exists and a writable output path succeeds, and the template it created holds
\* the header row of the result and nothing else.
C6_MissingTemplateIsCreated ==
    (/\ WriteDone
     /\ Len(probe.df.rows) > 0
     /\ Len(probe.df.columns) > 0
     /\ probe.before[probe.template_path] = Missing
     /\ probe.save_ok) =>
        /\ probe.ret = "ok"
        /\ probe.template_path # probe.output_path
              => files[probe.template_path] = HeaderOnlyWorkbook(probe.df.columns)

\* C7: after a successful write the header row of the Report sheet is the column
\* list of the result: cell i holds column i, and no header cell beyond the
\* columns of the result holds text.
C7_HeaderRowEqualsColumns ==
    WriteOk =>
        LET cells == ReportOf(files[probe.output_path])
        IN \A c \in GridCols :
              cells[1][c] = IF c <= Len(probe.df.columns) THEN probe.df.columns[c]
                            ELSE NoneCell

\* C8: after a successful write, result row r (1-based) is sheet row r + 1 of the
\* Report sheet, column for column, and a null value is a cell without a value,
\* never the null marker.
C8_DataRowsPositional ==
    WriteOk =>
        LET cells == ReportOf(files[probe.output_path])
        IN \A r \in 1..Len(probe.df.rows), c \in 1..Len(probe.df.columns) :
              /\ cells[r + 1][c] # NaN
              /\ cells[r + 1][c] = IF probe.df.rows[r][c] = NaN THEN NoneCell
                                   ELSE probe.df.rows[r][c]

\* two rows of two columns, nulls and values in different places, were written
\* over a sheet that held old data
C8_Witness ==
    /\ WriteOk
    /\ probe.df.rows = <<<<NaN, <<"v">>>>, <<<<"v">>, NaN>>>>
    /\ probe.before[probe.template_path] # Missing
    /\ ReportOf(files[probe.output_path])[2][2] = <<"v">>

----------------------------------------------------------------------------
(* Properties of the form, checked under Spec *)

\* an identifier of the allowlist: 1 to 64 characters, each a letter, a digit,
\* '_', '-' or '.'
IsIdentifier(s) ==
    /\ Len(s) >= 1
    /\ Len(s) <= MaxIdLen
    /\ \A i \in 1..Len(s) : s[i] \in SafeChars

\* C1: every query handed to the executor is the SELECT built around an
\* identifier of the allowlist, the trimmed text of the entry; while the trimmed
\* entry text is not such an identifier, the last handler handed the executor
\* nothing and, if it was run_query, showed the Invalid acct_id error.
C1_ValidatedBeforeDispatch ==
    /\ executed # <<>> =>
          /\ IsIdentifier(QueryLiteral(executed))
          /\ executed = build_select_query(QueryLiteral(executed))
          /\ QueryLiteral(executed) = strip(acct_var)
    /\ (strip(acct_var) # <<>> /\ ~IsIdentifier(strip(acct_var))) =>
          /\ executed = <<>>
          /\ event.handler = "run_query" => msg = "Invalid acct_id"

\* a query was dispatched for an entry text that ends in whitespace
C1_Witness ==
    /\ executed # <<>>
    /\ acct_var # strip(acct_var)
    /\ event.handler = "run_query"

\* the query path of a handler runs: run_query itself, or export_and_draft with
\* an empty cache
QueryPathRuns ==
    \/ event'.handler = "run_query"
    \/ event'.handler = "export_and_draft" /\ df_is_none_or_empty(last_df)

\* C9: in every run of run_query and export_and_draft each failure ends with its
\* message box, and the box tells the kind: Input required for an empty entry,
\* Invalid acct_id for a rejected identifier, Query failed for an executor
\* failure, Error for a failed workbook or draft write.
C9_EveryFailureHasItsMessage ==
    [][/\ (QueryPathRuns /\ strip(acct_var) = <<>>) => msg' = "Input required"
       /\ (QueryPathRuns /\ strip(acct_var) # <<>> /\ ~IsIdentifier(strip(acct_var)))
             => msg' = "Invalid acct_id"
       /\ (QueryPathRuns /\ event'.exec = "raise") => msg' = "Query failed"
       /\ (event'.handler = "export_and_draft" /\ event'.io \in {"save fails", "draft fails"})
             => msg' = "Error"
       /\ msg' = "Input required" => (QueryPathRuns /\ strip(acct_var) = <<>>)
       /\ msg' = "Invalid acct_id" => (QueryPathRuns /\ ~IsIdentifier(strip(acct_var)))
       /\ msg' = "Query failed" => (QueryPathRuns /\ event'.exec = "raise")
       /\ msg' = "Error" => (event'.handler = "export_and_draft" /\ event'.io # "ok")
      ]_vars

\* export_and_draft ran its query, got rows, and then the draft could not be
\* written
C9_Witness ==
    /\ event.handler = "export_and_draft"
    /\ event.exec = "rows"
    /\ event.io = "draft fails"
    /\ msg = "Error"

\* C10: whenever export_and_draft has written the workbook and the draft, every
\* row of the exported cache last_df is a row of the account the draft names.
C10_ExportedDataIsOfNamedAccount ==
    msg = "Success" =>
        \A k \in 1..Len(last_df.rows) : last_df.rows[k][1] = draft.acct

\* C3: a successful export saves to an output path that is not the template
\* path, and a template file that existed before the export has the same
\* content after it.
C3_TemplateNeverOverwritten ==
    [][(event'.handler = "export_and_draft" /\ msg' = "Success") =>
          /\ TEMPLATE_PATH # OUTPUT_PATH
          /\ files[TEMPLATE_PATH] # Missing
                => files'[TEMPLATE_PATH] = files[TEMPLATE_PATH]
      ]_vars

====
